---- MODULE Spec2Model ----
(***************************************************************************)
(* Model of the timer-driven animation phases of JarmissAI (src/index.py): *)
(* the loading screen (show_loading_screen, animate_loading,               *)
(* update_sound_text, show_auth_screen) and the welcome scene              *)
(* (show_welcome_animation, animate_welcome_balls, show_dashboard), with   *)
(* the login / logout steps that start and end them.                       *)
(*                                                                         *)
(* Numbers.  The source computes with Python floats.  Here every length    *)
(* and velocity is an integer number of thousandths (Milli == 1000), so    *)
(* 0.8 is 800 and 650 is 650000.  Additions are exact; a product with a    *)
(* restitution factor is truncated to a thousandth (FMul).                 *)
(*                                                                         *)
(* Time.  root.after(ms, f) puts f on Tk's timer list, which is kept in    *)
(* deadline order; the event loop runs the head of the list once it is     *)
(* due.  `timers` is that list with the time remaining for each entry.     *)
(* The body of an animation tick takes tick_cost milliseconds of wall      *)
(* clock (chosen once per run); every other callback is instantaneous.     *)
(*                                                                         *)
(* Randomness.  random.uniform / random.randint are draws from a           *)
(* generator whose seed is chosen at start-up: rng is a Lehmer generator   *)
(* modulo RngMod, and a draw maps its state to the requested range.        *)
(***************************************************************************)
EXTENDS Integers, Sequences, FiniteSets, TLC

\* ---------------------------------------------------------------- bounds
MaxTickCost == 2      \* wall-clock cost of one tick body is 0..MaxTickCost ms
NumSeeds == 4         \* seeds 1..NumSeeds of the random generator
MaxLogins == 2        \* number of logins (welcome phases) in a run
MaxSoundIndex == 12   \* update_sound_text is followed up to this value of sound_index
ArenaTicks == 3       \* ticks run from each body state drawn by ArenaInit
MaxSends == 1         \* messages sent in a run of the chat specification
MaxChats == 2         \* chats of a user when the New Chat button or a refresh adds one
MaxSeconds == 1       \* seconds that pass while the dashboard is used

\* ------------------------------------------------------ program constants
Milli == 1000
LoadingBudget == 250          \* animate_loading: animation_frame < 250
WelcomeBudget == 150          \* animate_welcome_balls: frame < 150
TickDelay == 20               \* root.after(20, ...)
SoundDelay == 600             \* root.after(600, self.update_sound_text)
AuthDelay == 500              \* root.after(500, self.show_auth_screen)
DashboardDelay == 3000        \* root.after(3000, self.show_dashboard)
BurstSize == 8                \* for _ in range(8)
ParticleLife == 20            \* 'life': 20
ParticleGravity == 500        \* particle['vy'] += 0.5
TrailEvery == 3               \* animation_frame % 3 == 0
TrailCap == 15                \* len(self.trail_circles) > 15
LoadRightWall == 1200000      \* ball_x + ball_radius >= 1200
LoadLeftWall == 0             \* ball_x - ball_radius <= 0
WelcomeGravity == 500         \* ball['vy'] += 0.5
WelcomeGround == 500000       \* ball['y'] + ball['radius'] >= 500
WelcomeCeiling == 100000      \* ball['y'] - ball['radius'] <= 100
WelcomeRightWall == 1100000   \* ball['x'] + ball['radius'] >= 1100
WelcomeLeftWall == 100000     \* ball['x'] - ball['radius'] <= 100
NumBalls == 5                 \* for i in range(5)
NumSoundMessages == 6         \* len(self.sound_messages)
FirstItemId == 15             \* canvas ids 1..14 are the text, glow, ball, shine, ground items
RngMod == 31
RngMul == 3


\* variant of LoadingRunning: off by one, a 251st tick runs
LoadingRunningInclusive(frame) == frame <= LoadingBudget

\* ---------------------------------------------------------------- helpers
\* the guards of the two tick callbacks (lines 300 and 738) and the frame
\* increment at the end of a tick (lines 391 and 786)
LoadingRunning(frame) == frame < LoadingBudget

WelcomeRunning(frame) == frame < WelcomeBudget


\* variant of NextFrame: the index advances by two
NextFrameSkipping(frame) == frame + 2

NextFrame(frame) == frame + 1

Abs(v) == IF v < 0 THEN -v ELSE v

\* a * f for a factor f given in thousandths, truncated to a thousandth
FMul(a, f) == IF a < 0 THEN -((-a * f) \div Milli) ELSE (a * f) \div Milli

\* the generator: one step, and n steps
RngNext(r) == (RngMul * r) % RngMod

RECURSIVE RngAdv(_, _)
RngAdv(r, n) == IF n = 0 THEN r ELSE RngAdv(RngNext(r), n - 1)

\* random.uniform(lo, hi) and random.randint(lo, hi) for generator state r:
\* lo + (hi - lo) * u with u = (r - 1) / (RngMod - 2) in [0, 1]
RandomUniform(r, lo, hi) == lo + ((hi - lo) * (r - 1)) \div (RngMod - 2)

RandomRandint(r, lo, hi) == lo + ((hi - lo) * (r - 1)) \div (RngMod - 2)

VARIABLES
  \* loading phase (fields of JarmissAI set in __init__ / show_loading_screen)
  animation_frame, ball_x, ball_y, ball_radius, ball_velocity_x,
  ball_velocity_y, gravity, bounce_damping, ground_level,
  particles,        \* list of [x, y, vx, vy, life, id]
  trail_circles,    \* list of trail markers [id, x, y] (the canvas item and its centre)
  sound_index,
  loading_canvas,   \* [alive, items]: the loading frame/canvas and its particle and trail items
  next_id,          \* next canvas item id of loading_canvas
  \* welcome phase
  welcome_frame,    \* "none" (attribute not set yet), "alive" or "destroyed"
  welcome_canvas,   \* number of the canvas created by the latest show_welcome_animation
  welcome_balls,    \* list of [x, y, radius, vx, vy, bounce_height]
  welcome_animation_frame,
  \* application
  screen,           \* "loading", "auth", "welcome", "dashboard"
  timers,           \* Tk timer list: [cb, rem, canvas] in deadline order
  rng, tick_cost, logins,
  \* observation of the run
  ev,               \* the callback that ran last: [op, idx, raised, canvas]
  completions,      \* [loading, welcome]: times each phase's completion step was triggered
  twin,             \* [i, balls]: a second run of the welcome loop that shares ball i (TwinSpec)
  \* session and chats (fields of JarmissAI set in __init__)
  users_db,         \* email -> [chats, pinned_chats, api_key]; a chat is [id, messages]
  current_user,     \* an email or None
  current_chat_id,  \* a chat id or NoChat (None)
  chat_history,     \* reference to a list of messages (an index of lists)
  uploaded_file,    \* TRUE when a file is attached (a dict in the source), FALSE for None
  ai_enabled,       \* ai_enabled and ai_model, which are set and reset together
  lists,            \* the Python list objects that hold messages: reference -> list of [sender, n]
  clock,            \* int(time.time()), in seconds since the start
  replies,          \* replies on their way: [n, stage, file], stage "timer" (root.after(500)) or "ai" (thread in generate_content)
  gemini,           \* GEMINI_AVAILABLE: the import of google.generativeai succeeded
  sent              \* observation: for message n, [user, chat, calls]: who sent it, in which chat, and the display_ai_response calls made for it

loadVars == <<animation_frame, ball_x, ball_y, ball_radius, ball_velocity_x,
              ball_velocity_y, gravity, bounce_damping, ground_level,
              particles, trail_circles, loading_canvas, next_id>>

welcomeVars == <<welcome_frame, welcome_canvas, welcome_balls, welcome_animation_frame>>

chatVars == <<users_db, current_user, current_chat_id, chat_history, uploaded_file,
              ai_enabled, lists, clock, replies, gemini, sent>>

vars == <<loadVars, sound_index, welcomeVars, screen, timers, rng, tick_cost,
          logins, ev, completions, twin, chatVars>>

\* ----------------------------------------------------------------- timers
Timer(cb, rem, canvas) == [cb |-> cb, rem |-> rem, canvas |-> canvas]

Max0(v) == IF v < 0 THEN 0 ELSE v

\* d milliseconds pass: every pending timer is d closer to (or past) its deadline
Elapse(ts, d) == [i \in 1..Len(ts) |-> [ts[i] EXCEPT !.rem = Max0(@ - d)]]

\* root.after: the new timer goes behind every timer that is due no later
RECURSIVE After(_, _)
After(ts, t) ==
  IF ts = <<>> THEN <<t>>
  ELSE IF Head(ts).rem <= t.rem THEN <<Head(ts)>> \o After(Tail(ts), t)
  ELSE <<t>> \o ts

Due(cb) == timers /= <<>> /\ Head(timers).rem = 0 /\ Head(timers).cb = cb

Event(op, idx, raised, canvas) == [op |-> op, idx |-> idx, raised |-> raised, canvas |-> canvas]

\* ------------------------------------------------- loading phase: physics
\* lines 302-304: gravity is added to the vertical velocity, then the
\* velocity to the position
\* variant of Integrate: the position is moved by the velocity the tick began with
IntegrateExplicit(x, y, vx, vy, g) == [x |-> x + vx, y |-> y + vy, vy |-> vy + g]

\* lines 302-304 and 741-743: gravity into velocity.y, then velocity into position
Integrate(x, y, vx, vy, g) == [x |-> x + vx, y |-> y + (vy + g), vy |-> vy + g]


\* variant of GroundBounce: the velocity is reflected but the ball is not
\* put back on the ground
GroundBounceUnclamped(y, vy, radius, damping, ground) ==
  IF y + radius >= ground
  THEN [y |-> y, vy |-> FMul(-vy, damping), contact |-> TRUE]
  ELSE [y |-> y, vy |-> vy, contact |-> FALSE]

\* lines 307-309: ground contact of the loading ball
GroundBounce(y, vy, radius, damping, ground) ==
  IF y + radius >= ground
  THEN [y |-> ground - radius, vy |-> FMul(-vy, damping), contact |-> TRUE]
  ELSE [y |-> y, vy |-> vy, contact |-> FALSE]


\* variant of WallBounce: the right wall damps like the ground does
WallBounceDamped(x, vx, radius) ==
  LET hitR == x + radius >= LoadRightWall
      x2 == IF hitR THEN LoadRightWall - radius ELSE x
      vx2 == IF hitR THEN FMul(-Abs(vx), 850) ELSE vx
      hitL == x2 - radius <= LoadLeftWall
  IN [x |-> IF hitL THEN radius ELSE x2, vx |-> IF hitL THEN Abs(vx2) ELSE vx2]

\* lines 329-336: the right wall, then the left wall
WallBounce(x, vx, radius) ==
  LET hitR == x + radius >= LoadRightWall
      x2 == IF hitR THEN LoadRightWall - radius ELSE x
      vx2 == IF hitR THEN -Abs(vx) ELSE vx
      hitL == x2 - radius <= LoadLeftWall
  IN [x |-> IF hitL THEN radius ELSE x2, vx |-> IF hitL THEN Abs(vx2) ELSE vx2]

\* variant of BallStep: the walls are tested only when the ground was not hit
BallStepExclusive(x, y, vx, vy, radius, g, damping, ground) ==
  LET i == Integrate(x, y, vx, vy, g)
      gb == GroundBounce(i.y, i.vy, radius, damping, ground)
      wb == IF gb.contact THEN [x |-> i.x, vx |-> vx] ELSE WallBounce(i.x, vx, radius)
  IN [x |-> wb.x, y |-> gb.y, vx |-> wb.vx, vy |-> gb.vy,
      contact |-> gb.contact, impact |-> i.vy, px |-> i.x]

\* animate_loading, lines 301-309 and 328-336, for the ball.  px is the x
\* the burst is created at (after integration, before the wall clamps);
\* impact is the vertical velocity the ground contact found.
BallStep(x, y, vx, vy, radius, g, damping, ground) ==
  LET i == Integrate(x, y, vx, vy, g)
      gb == GroundBounce(i.y, i.vy, radius, damping, ground)
      wb == WallBounce(i.x, vx, radius)
  IN [x |-> wb.x, y |-> gb.y, vx |-> wb.vx, vy |-> gb.vy,
      contact |-> gb.contact, impact |-> i.vy, px |-> i.x]


\* variant of MakeBurst: the loop runs one time too few
MakeBurstShort(n, r, id, x, y) ==
  [k \in 1..(n - 1) |->
     [x |-> x, y |-> y,
      vx |-> RandomUniform(RngAdv(r, 2 * k - 1), -4000, 4000),
      vy |-> RandomUniform(RngAdv(r, 2 * k), -8000, -3000),
      life |-> ParticleLife, id |-> id + k - 1]]

\* lines 312-326: n particles created at (x, y); the k-th draws its vx, then
\* its vy, after the 2 * (k - 1) draws of the particles before it
MakeBurst(n, r, id, x, y) ==
  [k \in 1..n |->
     [x |-> x, y |-> y,
      vx |-> RandomUniform(RngAdv(r, 2 * k - 1), -4000, 4000),
      vy |-> RandomUniform(RngAdv(r, 2 * k), -8000, -3000),
      life |-> ParticleLife, id |-> id + k - 1]]

\* variant of AgeParticle: the particle is moved by the velocity it had
\* before gravity was added
AgeParticleExplicit(p) ==
  [x |-> p.x + p.vx, y |-> p.y + p.vy, vx |-> p.vx,
   vy |-> p.vy + ParticleGravity, life |-> p.life - 1, id |-> p.id]

\* lines 351-354: one particle moved and aged
AgeParticle(p) ==
  [x |-> p.x + p.vx, y |-> p.y + p.vy + ParticleGravity, vx |-> p.vx,
   vy |-> p.vy + ParticleGravity, life |-> p.life - 1, id |-> p.id]

\* variant of Alive: a particle is kept for one tick after its life is used up
AliveInclusive(p) == p.life >= 0

\* lines 350-364: every particle of the list is aged; the ones whose life
\* is used up are deleted from the canvas and removed from the list
Alive(p) == p.life > 0

\* variant of UpdateParticles: the particles created in this tick are left
\* for the next tick to age
UpdateParticlesOldOnly(ps) ==
  SelectSeq([i \in 1..Len(ps) |-> IF ps[i].life = ParticleLife THEN ps[i]
                                                                ELSE AgeParticle(ps[i])], Alive)

UpdateParticles(ps) == SelectSeq([i \in 1..Len(ps) |-> AgeParticle(ps[i])], Alive)

Ids(seq) == {seq[i].id : i \in 1..Len(seq)}


\* variant of EvictOldest: the marker just appended is the one dropped
EvictNewest(trail) == IF Len(trail) > TrailCap THEN SubSeq(trail, 1, TrailCap) ELSE trail

\* lines 346-347: a list longer than the cap loses its head (pop(0))
EvictOldest(trail) == IF Len(trail) > TrailCap THEN Tail(trail) ELSE trail

\* variant of UpdateTrail: nothing is evicted
UpdateTrailUnbounded(trail, frame, id, x, y) ==
  IF frame % TrailEvery = 0
  THEN Append(trail, [id |-> id, x |-> x, y |-> y])
  ELSE trail

\* lines 339-347: every third frame a marker is appended at the ball; a
\* list longer than the cap loses its head
UpdateTrail(trail, frame, id, x, y) ==
  IF frame % TrailEvery = 0
  THEN EvictOldest(Append(trail, [id |-> id, x |-> x, y |-> y]))
  ELSE trail

\* The body of animate_loading for animation_frame < 250 (lines 301-391) on
\* the loading fields s, while the canvas exists.  The result is the set
\* holding the one record of the fields after the tick; b is the ball after
\* integration and collisions, burst the particles a ground contact creates,
\* all the particle list the update loop runs over.
AnimateLoadingBody(s) ==
  UNION { UNION { {
    [s EXCEPT !.ball_x = b.x, !.ball_y = b.y, !.ball_velocity_x = b.vx,
              !.ball_velocity_y = b.vy,
              !.particles = UpdateParticles(all),
              !.trail_circles = UpdateTrail(s.trail_circles, s.animation_frame,
                                            s.next_id + Len(burst), b.x, b.y),
              !.next_id = s.next_id + Len(burst)
                          + (IF s.animation_frame % TrailEvery = 0 THEN 1 ELSE 0),
              !.rng = RngAdv(s.rng, 2 * Len(burst)),
              !.animation_frame = NextFrame(s.animation_frame)]
      : all \in {s.particles \o burst} }
      : burst \in {IF b.contact
                   THEN MakeBurst(BurstSize, s.rng, s.next_id, b.px, s.ground_level)
                   ELSE <<>>} }
      : b \in {BallStep(s.ball_x, s.ball_y, s.ball_velocity_x, s.ball_velocity_y,
                        s.ball_radius, s.gravity, s.bounce_damping, s.ground_level)} }

\* The same body when the canvas has been destroyed: the first canvas call
\* raises TclError and the rest of the body is skipped.  Before it, the ball
\* has been integrated; on a ground contact the first particle has drawn its
\* velocities (create_oval raises), otherwise on a frame without a trail
\* marker the first particle of the list has been aged (coords raises).
AnimateLoadingRaises(s) ==
  { [s EXCEPT !.ball_x = b.x, !.ball_y = b.y, !.ball_velocity_x = b.vx,
              !.ball_velocity_y = b.vy,
              !.rng = IF b.contact THEN RngAdv(s.rng, 2) ELSE s.rng,
              !.particles = IF ~b.contact /\ s.animation_frame % TrailEvery /= 0
                               /\ s.particles /= <<>>
                            THEN <<AgeParticle(Head(s.particles))>> \o Tail(s.particles)
                            ELSE s.particles]
    : b \in {BallStep(s.ball_x, s.ball_y, s.ball_velocity_x, s.ball_velocity_y,
                      s.ball_radius, s.gravity, s.bounce_damping, s.ground_level)} }

\* the loading fields as one record, and the fields show_loading_screen sets
LoadingFields ==
  [animation_frame |-> animation_frame, ball_x |-> ball_x, ball_y |-> ball_y,
   ball_radius |-> ball_radius, ball_velocity_x |-> ball_velocity_x,
   ball_velocity_y |-> ball_velocity_y, gravity |-> gravity,
   bounce_damping |-> bounce_damping, ground_level |-> ground_level,
   particles |-> particles, trail_circles |-> trail_circles,
   next_id |-> next_id, rng |-> rng]

InitialLoadingFields(seed) ==
  [animation_frame |-> 0, ball_x |-> 100000, ball_y |-> 400000,
   ball_radius |-> 40000, ball_velocity_x |-> 8000, ball_velocity_y |-> 0,
   gravity |-> 800, bounce_damping |-> 850, ground_level |-> 650000,
   particles |-> <<>>, trail_circles |-> <<>>,
   next_id |-> FirstItemId, rng |-> seed]

\* the items of the loading canvas that the particle and trail lists name
ItemsOf(s) == Ids(s.particles) \cup Ids(s.trail_circles)

\* assignment of the loading fields (and rng) from a record
SetLoading(s, alive) ==
  /\ animation_frame' = s.animation_frame
  /\ ball_x' = s.ball_x
  /\ ball_y' = s.ball_y
  /\ ball_radius' = s.ball_radius
  /\ ball_velocity_x' = s.ball_velocity_x
  /\ ball_velocity_y' = s.ball_velocity_y
  /\ gravity' = s.gravity
  /\ bounce_damping' = s.bounce_damping
  /\ ground_level' = s.ground_level
  /\ particles' = s.particles
  /\ trail_circles' = s.trail_circles
  /\ loading_canvas' = [alive |-> alive, items |-> IF alive THEN ItemsOf(s) ELSE {}]
  /\ next_id' = s.next_id
  /\ rng' = s.rng

\* ------------------------------------------------------ session and chats
\* Python lists are objects: chat_history and the "messages" of a stored
\* chat are references into lists, so that two names of one list see each
\* other's appends (load_chat and save_current_chat share lists).  A message
\* is [sender, n]: the n-th message sent in the run, or the reply to it.
\* File contents, message texts, titles and timestamps are left out.
None == "None"
NoChat == -1
DemoUser == "demo@jarmiss.ai"
OtherUser == "user@jarmiss.ai"

Range(seq) == {seq[i] : i \in 1..Len(seq)}

\* the record of a user without chats (lines 70-82, 631-642)
NewUser == [chats |-> <<>>, pinned_chats |-> <<>>, api_key |-> ""]

\* create_default_db, lines 68-83
create_default_db == (DemoUser :> NewUser)

\* the session fields as one record, and their assignment from a record
SessionFields ==
  [users_db |-> users_db, current_user |-> current_user,
   current_chat_id |-> current_chat_id, chat_history |-> chat_history,
   uploaded_file |-> uploaded_file, ai_enabled |-> ai_enabled,
   lists |-> lists, clock |-> clock]

SetSession(c) ==
  /\ users_db' = c.users_db
  /\ current_user' = c.current_user
  /\ current_chat_id' = c.current_chat_id
  /\ chat_history' = c.chat_history
  /\ uploaded_file' = c.uploaded_file
  /\ ai_enabled' = c.ai_enabled
  /\ lists' = c.lists
  /\ clock' = c.clock

\* the session when JarmissAI.__init__ returns (lines 28-51), no users file
NoSession(available) ==
  /\ users_db = create_default_db
  /\ current_user = None
  /\ current_chat_id = NoChat
  /\ chat_history = 1
  /\ uploaded_file = FALSE
  /\ ai_enabled = FALSE
  /\ lists = << <<>> >>
  /\ clock = 0
  /\ replies = <<>>
  /\ gemini = available
  /\ sent = <<>>

\* the lists some name refers to: chat_history and the stored chats
Referenced(c) ==
  {c.chat_history}
    \cup UNION {{c.users_db[u].chats[i].messages : i \in 1..Len(c.users_db[u].chats)}
                 : u \in DOMAIN c.users_db}

\* []: a new empty list, at the first reference no name refers to
NewList(c) == CHOOSE i \in 1..(Len(c.lists) + 1) :
                i \notin Referenced(c) /\ \A j \in 1..(i - 1) : j \in Referenced(c)

WithList(c, i) ==
  IF i > Len(c.lists) THEN Append(c.lists, <<>>) ELSE [c.lists EXCEPT ![i] = <<>>]

\* a list no name refers to is freed (reference counting)
Collect(c) ==
  LET live == Referenced(c)
      top == CHOOSE i \in live : \A j \in live : j <= i
  IN [c EXCEPT !.lists = [i \in 1..top |-> IF i \in live THEN c.lists[i] ELSE <<>>]]

\* self.chat_history = []
FreshHistory(c) ==
  LET i == NewList(c) IN Collect([c EXCEPT !.chat_history = i, !.lists = WithList(c, i)])

\* next((c for c in chats if c["id"] == chat_id), None): index of the first, 0 for None
FindChat(chats, chat_id) ==
  IF \E i \in 1..Len(chats) : chats[i].id = chat_id
  THEN CHOOSE i \in 1..Len(chats) :
         chats[i].id = chat_id /\ \A j \in 1..(i - 1) : chats[j].id /= chat_id
  ELSE 0

\* list.remove(x): the first x is taken out
RemoveFirst(seq, x) ==
  LET i == CHOOSE k \in 1..Len(seq) : seq[k] = x /\ \A j \in 1..(k - 1) : seq[j] /= x
  IN SubSeq(seq, 1, i - 1) \o SubSeq(seq, i + 1, Len(seq))

\* new_chat, lines 1139-1164: the id is the clock second
new_chat(c) ==
  LET h == FreshHistory(c)
      id == c.clock
      messages == NewList(h)
  IN IF c.current_user /= None
     THEN [h EXCEPT !.current_chat_id = id, !.uploaded_file = FALSE,
                    !.lists = WithList(h, messages),
                    !.users_db[c.current_user].chats =
                        Append(@, [id |-> id, messages |-> messages])]
     ELSE [h EXCEPT !.current_chat_id = id, !.uploaded_file = FALSE]

\* configure_ai, lines 93-111 (genai takes any key without checking it)
configure_ai(c, api_key) ==
  IF gemini /\ api_key /= "" THEN [c EXCEPT !.ai_enabled = TRUE] ELSE c

\* demo_login, handle_login: lines 598-602, 586-590, before show_welcome_animation
login(c, email) ==
  configure_ai([c EXCEPT !.current_user = email], c.users_db[email].api_key)

\* logout, lines 2050-2057
logout(c) ==
  [FreshHistory(c) EXCEPT !.current_user = None, !.current_chat_id = NoChat,
                          !.uploaded_file = FALSE, !.ai_enabled = FALSE]

\* save_current_chat, lines 1596-1603
save_current_chat(c) ==
  IF c.current_user /= None /\ c.current_chat_id /= NoChat
  THEN LET i == FindChat(c.users_db[c.current_user].chats, c.current_chat_id)
       IN IF i /= 0
          THEN Collect([c EXCEPT !.users_db[c.current_user].chats[i].messages
                                    = c.chat_history])
          ELSE c
  ELSE c

\* the chats of the current user without those of some id (lines 1355-1358)
WithoutChat(chats, chat_id) ==
  LET keep == {i \in 1..Len(chats) : chats[i].id /= chat_id}
      nth(k) == CHOOSE i \in keep : Cardinality({j \in keep : j <= i}) = k
  IN [k \in 1..Cardinality(keep) |-> chats[nth(k)]]

\* pin_chat, lines 1283-1289
pin_chat(c, chat_id) ==
  LET pinned_chats == c.users_db[c.current_user].pinned_chats
  IN IF chat_id \notin Range(pinned_chats)
     THEN [c EXCEPT !.users_db[c.current_user].pinned_chats = Append(pinned_chats, chat_id)]
     ELSE c

\* unpin_chat, lines 1291-1297
unpin_chat(c, chat_id) ==
  LET pinned_chats == c.users_db[c.current_user].pinned_chats
  IN IF chat_id \in Range(pinned_chats)
     THEN [c EXCEPT !.users_db[c.current_user].pinned_chats = RemoveFirst(pinned_chats, chat_id)]
     ELSE c

\* variant of delete_chat: the pin of the deleted chat is left in place
delete_chat_keeping_pin(c, chat_id) ==
  LET removed == [c EXCEPT !.users_db[c.current_user].chats = WithoutChat(@, chat_id)]
  IN IF c.current_chat_id = chat_id THEN new_chat(removed) ELSE Collect(removed)

\* delete_chat, lines 1350-1370 (the user confirms)
delete_chat(c, chat_id) ==
  LET removed == [c EXCEPT !.users_db[c.current_user].chats = WithoutChat(@, chat_id)]
      unpinned == unpin_chat(removed, chat_id)
  IN IF c.current_chat_id = chat_id THEN new_chat(unpinned) ELSE Collect(unpinned)

\* load_chat, lines 1372-1396
load_chat(c, chat_id) ==
  LET chats == c.users_db[c.current_user].chats
      i == FindChat(chats, chat_id)
  IN Collect([c EXCEPT !.current_chat_id = chat_id, !.uploaded_file = FALSE,
                       !.chat_history = IF i /= 0 THEN chats[i].messages ELSE @])

\* variant of clear_chat_history: the dashboard is not built again
clear_chat_history_without_refresh(c) ==
  FreshHistory([c EXCEPT !.users_db[c.current_user].chats = <<>>,
                         !.users_db[c.current_user].pinned_chats = <<>>,
                         !.current_chat_id = NoChat])

\* clear_chat_history, lines 1907-1922 (the user confirms): both lists are
\* emptied, then the dashboard is built again, which calls new_chat
clear_chat_history(c) ==
  new_chat(FreshHistory([c EXCEPT !.users_db[c.current_user].chats = <<>>,
                                  !.users_db[c.current_user].pinned_chats = <<>>,
                                  !.current_chat_id = NoChat]))

\* list.append(msg) on the list chat_history names
AppendMessage(c, msg) == [c EXCEPT !.lists[c.chat_history] = Append(@, msg)]

\* display_ai_response, lines 167-179, for the reply to message n: the
\* reply is appended to chat_history; display_message needs the chat display
\* of a dashboard (TclError without it); then save_current_chat
display_ai_response(c, n, displayed) ==
  LET appended == AppendMessage(c, [sender |-> "ai", n |-> n])
  IN IF displayed THEN save_current_chat(appended) ELSE appended

\* ------------------------------------------------------------------- Init
\* The state when JarmissAI.__init__ returns: show_loading_screen has set
\* the fields, run animate_loading once (frame 0) and update_sound_text once.
Init ==
  \E seed \in 1..NumSeeds, cost \in 0..MaxTickCost :
  \E s \in AnimateLoadingBody(InitialLoadingFields(seed)) :
    /\ animation_frame = s.animation_frame
    /\ ball_x = s.ball_x
    /\ ball_y = s.ball_y
    /\ ball_radius = s.ball_radius
    /\ ball_velocity_x = s.ball_velocity_x
    /\ ball_velocity_y = s.ball_velocity_y
    /\ gravity = s.gravity
    /\ bounce_damping = s.bounce_damping
    /\ ground_level = s.ground_level
    /\ particles = s.particles
    /\ trail_circles = s.trail_circles
    /\ loading_canvas = [alive |-> TRUE, items |-> ItemsOf(s)]
    /\ next_id = s.next_id
    /\ rng = s.rng
    /\ sound_index = 1
    /\ welcome_frame = "none"
    /\ welcome_canvas = 0
    /\ welcome_balls = <<>>
    /\ welcome_animation_frame = 0
    /\ screen = "loading"
    /\ timers = <<Timer("animate_loading", TickDelay, 0),
                  Timer("update_sound_text", SoundDelay, 0)>>
    /\ tick_cost = cost
    /\ logins = 0
    /\ ev = Event("init", 0, FALSE, 0)
    /\ completions = [loading |-> 0, welcome |-> 0]
    /\ twin = [i |-> 0, balls |-> <<>>]
    /\ NoSession(TRUE)

\* ------------------------------------------------------------- event loop
\* Nothing is due: the loop sleeps until the first deadline.
Advance ==
  /\ timers /= <<>>
  /\ Head(timers).rem > 0
  /\ timers' = Elapse(timers, Head(timers).rem)
  /\ ev' = Event("advance", 0, FALSE, 0)
  /\ UNCHANGED <<twin, chatVars, loadVars, sound_index, welcomeVars, screen, rng, tick_cost,
                 logins, completions>>

\* animate_loading, lines 298-395
AnimateLoading ==
  /\ Due("animate_loading")
  /\ IF LoadingRunning(animation_frame)
     THEN IF loading_canvas.alive
          THEN /\ \E s \in AnimateLoadingBody(LoadingFields) : SetLoading(s, TRUE)
               /\ timers' = After(Elapse(Tail(timers), tick_cost),
                                  Timer("animate_loading", TickDelay, 0))
               /\ ev' = Event("animate_loading", animation_frame, FALSE, 0)
               /\ UNCHANGED completions
          ELSE /\ \E s \in AnimateLoadingRaises(LoadingFields) : SetLoading(s, FALSE)
               /\ timers' = Tail(timers)
               /\ ev' = Event("animate_loading", animation_frame, TRUE, 0)
               /\ UNCHANGED completions
     ELSE /\ timers' = After(Tail(timers), Timer("show_auth_screen", AuthDelay, 0))
          /\ ev' = Event("animate_loading", animation_frame, FALSE, 0)
          /\ completions' = [completions EXCEPT !.loading = @ + 1]
          /\ UNCHANGED <<loadVars, rng>>
  /\ UNCHANGED <<twin, chatVars, sound_index, welcomeVars, screen, tick_cost, logins>>

\* update_sound_text, lines 287-296.  hasattr(self, 'loading_canvas') holds
\* from show_loading_screen on; itemconfig on a destroyed canvas raises.
UpdateSoundText ==
  /\ Due("update_sound_text")
  /\ sound_index < MaxSoundIndex
  /\ IF loading_canvas.alive
     THEN /\ sound_index' = sound_index + 1
          /\ timers' = IF animation_frame < LoadingBudget
                       THEN After(Tail(timers), Timer("update_sound_text", SoundDelay, 0))
                       ELSE Tail(timers)
          /\ ev' = Event("update_sound_text", sound_index % NumSoundMessages, FALSE, 0)
     ELSE /\ timers' = Tail(timers)
          /\ ev' = Event("update_sound_text", sound_index % NumSoundMessages, TRUE, 0)
          /\ UNCHANGED sound_index
  /\ UNCHANGED <<twin, chatVars, loadVars, welcomeVars, screen, rng, tick_cost, logins, completions>>

\* show_auth_screen, lines 397-402: the loading frame is destroyed (with its
\* canvas and every item on it) and the auth frame is shown.
ShowAuthScreenEffect ==
  /\ loading_canvas' = [alive |-> FALSE, items |-> {}]
  /\ screen' = "auth"
  /\ UNCHANGED <<animation_frame, ball_x, ball_y, ball_radius, ball_velocity_x,
                 ball_velocity_y, gravity, bounce_damping, ground_level,
                 particles, trail_circles, next_id>>

\* the timer set by animate_loading fires show_auth_screen
ShowAuthScreen ==
  /\ Due("show_auth_screen")
  /\ ShowAuthScreenEffect
  /\ timers' = Tail(timers)
  /\ ev' = Event("show_auth_screen", 0, FALSE, 0)
  /\ UNCHANGED <<twin, chatVars, sound_index, welcomeVars, rng, tick_cost, logins, completions>>

\* ------------------------------------------------- welcome phase: physics
\* show_welcome_animation, lines 669-679: ball i (0-based) with its five
\* draws y, radius, vy, vx, bounce_height taken in that order from r
MakeWelcomeBall(i, r) ==
  [x |-> (200 + i * 200) * Milli,
   y |-> (200 + RandomRandint(RngAdv(r, 1), -50, 50)) * Milli,
   radius |-> (30 + RandomRandint(RngAdv(r, 2), -10, 10)) * Milli,
   vy |-> RandomUniform(RngAdv(r, 3), -2000, 2000),
   vx |-> RandomUniform(RngAdv(r, 4), -3000, 3000),
   bounce_height |-> RandomUniform(RngAdv(r, 5), 700, 900)]

MakeWelcomeBalls(r) == [k \in 1..NumBalls |-> MakeWelcomeBall(k - 1, RngAdv(r, 5 * (k - 1)))]


\* variant of WelcomeGroundBounce: bounce_height is left out
WelcomeGroundBounceUndamped(y, vy, radius, bounce_height) ==
  IF y + radius >= WelcomeGround
  THEN [y |-> WelcomeGround - radius, vy |-> -Abs(vy)]
  ELSE [y |-> y, vy |-> vy]

\* lines 746-748: bottom of the welcome box
WelcomeGroundBounce(y, vy, radius, bounce_height) ==
  IF y + radius >= WelcomeGround
  THEN [y |-> WelcomeGround - radius, vy |-> FMul(-Abs(vy), bounce_height)]
  ELSE [y |-> y, vy |-> vy]

\* variant of WelcomeCeilingBounce: the velocity is turned but the ball is
\* not put back under the top
WelcomeCeilingBounceUnclamped(y, vy, radius) ==
  IF y - radius <= WelcomeCeiling
  THEN [y |-> y, vy |-> Abs(vy)]
  ELSE [y |-> y, vy |-> vy]

\* lines 751-753: top of the welcome box
WelcomeCeilingBounce(y, vy, radius) ==
  IF y - radius <= WelcomeCeiling
  THEN [y |-> WelcomeCeiling + radius, vy |-> Abs(vy)]
  ELSE [y |-> y, vy |-> vy]

\* variant of WelcomeSideBounce: the velocity is turned but the ball is not
\* put back inside
WelcomeSideBounceUnclamped(x, vx, radius) ==
  IF x + radius >= WelcomeRightWall
  THEN [x |-> x, vx |-> -Abs(vx)]
  ELSE IF x - radius <= WelcomeLeftWall
       THEN [x |-> x, vx |-> Abs(vx)]
       ELSE [x |-> x, vx |-> vx]

\* lines 756-761: the right side, else the left side
WelcomeSideBounce(x, vx, radius) ==
  IF x + radius >= WelcomeRightWall
  THEN [x |-> WelcomeRightWall - radius, vx |-> -Abs(vx)]
  ELSE IF x - radius <= WelcomeLeftWall
       THEN [x |-> WelcomeLeftWall + radius, vx |-> Abs(vx)]
       ELSE [x |-> x, vx |-> vx]

\* variant of WelcomeBallStep: a ball on the bottom loses radius with its speed
WelcomeBallStepSquash(b) ==
  LET i == Integrate(b.x, b.y, b.vx, b.vy, WelcomeGravity)
      gb == WelcomeGroundBounce(i.y, i.vy, b.radius, b.bounce_height)
      cb == WelcomeCeilingBounce(gb.y, gb.vy, b.radius)
      sb == WelcomeSideBounce(i.x, b.vx, b.radius)
  IN [b EXCEPT !.x = sb.x, !.y = cb.y, !.vx = sb.vx, !.vy = cb.vy,
               !.radius = IF i.y + b.radius >= WelcomeGround
                          THEN FMul(b.radius, b.bounce_height) ELSE b.radius]

\* animate_welcome_balls, lines 741-761, for one ball
WelcomeBallStep(b) ==
  LET i == Integrate(b.x, b.y, b.vx, b.vy, WelcomeGravity)
      gb == WelcomeGroundBounce(i.y, i.vy, b.radius, b.bounce_height)
      cb == WelcomeCeilingBounce(gb.y, gb.vy, b.radius)
      sb == WelcomeSideBounce(i.x, b.vx, b.radius)
  IN [b EXCEPT !.x = sb.x, !.y = cb.y, !.vx = sb.vx, !.vy = cb.vy]

\* variant of WelcomeStepAll: the restitution read in the loop is the first ball's
WelcomeStepAllShared(balls) ==
  [k \in 1..Len(balls) |-> [WelcomeBallStep([balls[k] EXCEPT !.bounce_height = balls[1].bounce_height])
                              EXCEPT !.bounce_height = balls[k].bounce_height]]

\* the for loop of lines 739-784 while the canvas exists: every ball
WelcomeStepAll(balls) == [k \in 1..Len(balls) |-> WelcomeBallStep(balls[k])]

\* the same loop on a destroyed canvas: the first ball is integrated, then
\* canvas.coords (line 766) raises TclError
WelcomeStepRaises(balls) == [k \in 1..Len(balls) |-> IF k = 1 THEN WelcomeBallStep(balls[k]) ELSE balls[k]]

\* the canvas a tick callback was created with still exists
CanvasAlive(c) == welcome_frame = "alive" /\ c = welcome_canvas

\* animate_welcome_balls(canvas), lines 736-787, run by its timer
AnimateWelcomeBalls ==
  /\ Due("animate_welcome_balls")
  /\ LET c == Head(timers).canvas IN
     IF WelcomeRunning(welcome_animation_frame) /\ welcome_frame /= "none"
     THEN IF CanvasAlive(c) \/ welcome_balls = <<>>
          THEN /\ welcome_balls' = WelcomeStepAll(welcome_balls)
               /\ welcome_animation_frame' = NextFrame(welcome_animation_frame)
               /\ timers' = After(Elapse(Tail(timers), tick_cost),
                                  Timer("animate_welcome_balls", TickDelay, c))
               /\ ev' = Event("animate_welcome_balls", welcome_animation_frame, FALSE, c)
          ELSE /\ welcome_balls' = WelcomeStepRaises(welcome_balls)
               /\ timers' = Tail(timers)
               /\ ev' = Event("animate_welcome_balls", welcome_animation_frame, TRUE, c)
               /\ UNCHANGED welcome_animation_frame
     ELSE /\ timers' = Tail(timers)
          /\ ev' = Event("animate_welcome_balls", welcome_animation_frame, FALSE, c)
          /\ UNCHANGED <<welcome_balls, welcome_animation_frame>>
  /\ UNCHANGED <<twin, chatVars, loadVars, sound_index, welcome_frame, welcome_canvas, screen,
                 rng, tick_cost, logins, completions>>

\* demo_login (lines 596-603) from the auth screen, which calls
\* show_welcome_animation (lines 654-734): new frame and canvas, five balls,
\* frame index 0, the first tick run at once, then the dashboard timer.
DemoLogin ==
  /\ screen = "auth"
  /\ logins < MaxLogins
  /\ LET c == welcome_canvas + 1
         balls == WelcomeStepAll(MakeWelcomeBalls(rng))
     IN /\ welcome_frame' = "alive"
        /\ welcome_canvas' = c
        /\ welcome_balls' = balls
        /\ welcome_animation_frame' = NextFrame(0)
        /\ timers' = After(After(Elapse(timers, tick_cost),
                                 Timer("animate_welcome_balls", TickDelay, c)),
                           Timer("show_dashboard", DashboardDelay, c))
        /\ ev' = Event("show_welcome_animation", 0, FALSE, c)
  /\ rng' = RngAdv(rng, 5 * NumBalls)
  /\ screen' = "welcome"
  /\ logins' = logins + 1
  /\ completions' = [completions EXCEPT !.welcome = 0]
  /\ SetSession(login(SessionFields, DemoUser))
  /\ UNCHANGED <<twin, replies, gemini, sent, loadVars, sound_index, tick_cost>>

\* show_dashboard, lines 789-947, run by the timer of show_welcome_animation
\* 3 s after the login: the welcome frame goes, the dashboard is built and
\* new_chat is called (line 947)
ShowDashboard ==
  /\ Due("show_dashboard")
  /\ welcome_frame' = "destroyed"
  /\ screen' = "dashboard"
  /\ timers' = Tail(timers)
  /\ ev' = Event("show_dashboard", welcome_animation_frame, FALSE, Head(timers).canvas)
  /\ completions' = [completions EXCEPT !.welcome = @ + 1]
  /\ \E c \in {new_chat([SessionFields EXCEPT !.clock = @ + DashboardDelay \div 1000])} :
       SetSession(c)
  /\ UNCHANGED <<twin, replies, gemini, sent, loadVars, sound_index, welcome_canvas, welcome_balls,
                 welcome_animation_frame, rng, tick_cost, logins>>

\* logout, lines 2048-2059 (the user confirms): the dashboard frame is
\* destroyed and show_auth_screen is called directly
Logout ==
  /\ screen = "dashboard"
  /\ ShowAuthScreenEffect
  /\ ev' = Event("logout", 0, FALSE, 0)
  /\ \E c \in {logout(SessionFields)} : SetSession(c)
  /\ UNCHANGED <<twin, replies, gemini, sent, sound_index, welcomeVars, timers, rng, tick_cost, logins, completions>>

Next ==
  \/ Advance
  \/ AnimateLoading
  \/ UpdateSoundText
  \/ ShowAuthScreen
  \/ DemoLogin
  \/ AnimateWelcomeBalls
  \/ ShowDashboard
  \/ Logout

Spec == Init /\ [][Next]_vars

\* the event loop always gets to run a due callback and to sleep until the next
EventLoop ==
  Advance \/ AnimateLoading \/ UpdateSoundText \/ ShowAuthScreen
  \/ AnimateWelcomeBalls \/ ShowDashboard

FairSpec == Spec /\ WF_vars(EventLoop)

\* ------------------------------------------------------- render faults
\* A canvas call of a tick raises although the canvas exists (TclError from
\* Tk).  Neither tick catches anything: the exception leaves the callback at
\* the first canvas call, so the rest of the body, the frame increment and
\* root.after (lines 391-392, 786-787) are skipped.
AnimateLoadingFault ==
  /\ Due("animate_loading")
  /\ LoadingRunning(animation_frame)
  /\ loading_canvas.alive
  /\ \E s \in AnimateLoadingRaises(LoadingFields) : SetLoading(s, TRUE)
  /\ timers' = Tail(timers)
  /\ ev' = Event("animate_loading", animation_frame, TRUE, 0)
  /\ UNCHANGED <<twin, chatVars, sound_index, welcomeVars, screen, tick_cost, logins, completions>>

AnimateWelcomeBallsFault ==
  /\ Due("animate_welcome_balls")
  /\ WelcomeRunning(welcome_animation_frame)
  /\ CanvasAlive(Head(timers).canvas)
  /\ welcome_balls' = WelcomeStepRaises(welcome_balls)
  /\ timers' = Tail(timers)
  /\ ev' = Event("animate_welcome_balls", welcome_animation_frame, TRUE, Head(timers).canvas)
  /\ UNCHANGED <<twin, chatVars, loadVars, sound_index, welcome_frame, welcome_canvas,
                 welcome_animation_frame, screen, rng, tick_cost, logins, completions>>

FaultNext ==
  \/ Advance
  \/ AnimateLoading
  \/ UpdateSoundText
  \/ ShowAuthScreen
  \/ DemoLogin
  \/ AnimateWelcomeBalls
  \/ ShowDashboard
  \/ Logout
  \/ AnimateLoadingFault
  \/ AnimateWelcomeBallsFault

FaultSpec == Init /\ [][FaultNext]_vars

\* ------------------------------------------------------------ two runs
\* Two runs of the loop of animate_welcome_balls side by side: welcome_balls
\* as show_welcome_animation builds it from generator state ra, and twin.balls
\* built from generator state rb except for ball i, which is the same ball.
TwinInit ==
  \E i \in 1..NumBalls, ra \in 1..NumSeeds, rb \in 1..NumSeeds :
  \E s \in {[InitialLoadingFields(ra) EXCEPT !.animation_frame = LoadingBudget]} :
    /\ animation_frame = s.animation_frame
    /\ ball_x = s.ball_x
    /\ ball_y = s.ball_y
    /\ ball_radius = s.ball_radius
    /\ ball_velocity_x = s.ball_velocity_x
    /\ ball_velocity_y = s.ball_velocity_y
    /\ gravity = s.gravity
    /\ bounce_damping = s.bounce_damping
    /\ ground_level = s.ground_level
    /\ particles = s.particles
    /\ trail_circles = s.trail_circles
    /\ loading_canvas = [alive |-> FALSE, items |-> {}]
    /\ next_id = s.next_id
    /\ rng = RngAdv(ra, 5 * NumBalls)
    /\ sound_index = 1
    /\ welcome_frame = "alive"
    /\ welcome_canvas = 1
    /\ welcome_balls = MakeWelcomeBalls(ra)
    /\ welcome_animation_frame = 0
    /\ screen = "welcome"
    /\ timers = <<>>
    /\ tick_cost = 0
    /\ logins = 1
    /\ ev = Event("show_welcome_animation", 0, FALSE, 1)
    /\ completions = [loading |-> 1, welcome |-> 0]
    /\ twin = [i |-> i, balls |-> [MakeWelcomeBalls(rb) EXCEPT ![i] = MakeWelcomeBalls(ra)[i]]]
    /\ NoSession(TRUE)

\* one tick of animate_welcome_balls (lines 738-786) in both runs
TwinTick ==
  /\ twin.i > 0
  /\ WelcomeRunning(welcome_animation_frame)
  /\ welcome_balls' = WelcomeStepAll(welcome_balls)
  /\ twin' = [twin EXCEPT !.balls = WelcomeStepAll(@)]
  /\ welcome_animation_frame' = NextFrame(welcome_animation_frame)
  /\ ev' = Event("animate_welcome_balls", welcome_animation_frame, FALSE, welcome_canvas)
  /\ UNCHANGED <<chatVars, loadVars, sound_index, welcome_frame, welcome_canvas, screen,
                 timers, rng, tick_cost, logins, completions>>

TwinSpec == TwinInit /\ [][TwinTick]_vars

\* -------------------------------------------------- the ticks as functions
\* The two ticks applied to bodies drawn from all over their arenas, the
\* boundaries and corners included, in the last ArenaTicks ticks of a phase.
\* The runs from Init visit only part of these: the loading ball follows one
\* trajectory, and the welcome balls of show_welcome_animation never rise to
\* the top of their box.
ArenaState(s, balls, shown, available) ==
  /\ animation_frame = s.animation_frame
  /\ ball_x = s.ball_x
  /\ ball_y = s.ball_y
  /\ ball_radius = s.ball_radius
  /\ ball_velocity_x = s.ball_velocity_x
  /\ ball_velocity_y = s.ball_velocity_y
  /\ gravity = s.gravity
  /\ bounce_damping = s.bounce_damping
  /\ ground_level = s.ground_level
  /\ particles = s.particles
  /\ trail_circles = s.trail_circles
  /\ loading_canvas = [alive |-> shown = "loading", items |-> {}]
  /\ next_id = s.next_id
  /\ rng = s.rng
  /\ sound_index = 1
  /\ welcome_frame = IF balls = <<>> THEN "none" ELSE "alive"
  /\ welcome_canvas = Len(balls)
  /\ welcome_balls = balls
  /\ welcome_animation_frame = IF balls = <<>> THEN 0 ELSE WelcomeBudget - ArenaTicks
  /\ screen = shown
  /\ timers = IF shown = "loading" THEN <<Timer("animate_loading", 0, 0)>>
              ELSE IF shown = "welcome" THEN <<Timer("animate_welcome_balls", 0, 1)>>
              ELSE <<>>
  /\ tick_cost = 0
  /\ logins = Len(balls)
  /\ ev = Event("init", 0, FALSE, 0)
  /\ completions = [loading |-> IF shown = "loading" THEN 0 ELSE 1, welcome |-> 0]
  /\ twin = [i |-> 0, balls |-> <<>>]
  /\ NoSession(available)

ArenaInit ==
  \/ \E x \in {40000, 44000, 600000, 1156000, 1160000},
        y \in {45000, 400000, 600000, 610000},
        vx \in {-8000, 8000},
        vy \in {-15000, 0, 12000} :
       ArenaState([InitialLoadingFields(1) EXCEPT
                     !.animation_frame = LoadingBudget - ArenaTicks,
                     !.ball_x = x, !.ball_y = y,
                     !.ball_velocity_x = vx, !.ball_velocity_y = vy],
                  <<>>, "loading", TRUE)
  \/ \E radius \in {20000, 40000}, bounce_height \in {700, 900},
        dx \in {0, 2000, 500000}, dy \in {0, 1000, 200000},
        left \in BOOLEAN, top \in BOOLEAN,
        vx \in {-3000, 0, 3000},
        vy \in {-6000, -400, 0, 5000} :
       ArenaState([InitialLoadingFields(1) EXCEPT !.animation_frame = LoadingBudget],
                  <<[x |-> IF left THEN WelcomeLeftWall + radius + dx
                                   ELSE WelcomeRightWall - radius - dx,
                     y |-> IF top THEN WelcomeCeiling + radius + dy
                                  ELSE WelcomeGround - radius - dy,
                     radius |-> radius, vx |-> vx, vy |-> vy,
                     bounce_height |-> bounce_height]>>, "welcome", TRUE)

ArenaNext ==
  \/ Advance
  \/ AnimateLoading
  \/ ShowAuthScreen
  \/ AnimateWelcomeBalls

ArenaSpec == ArenaInit /\ [][ArenaNext]_vars

\* ------------------------------------------------------------------ chats
\* The dashboard in use.  A login is followed here up to the dashboard in
\* one step: demo_login / handle_login / handle_signup, the 3 s of the
\* welcome phase and show_dashboard with its new_chat.  The 500 ms timers of
\* send_message have fired by then.  A reply is on its way from send_message
\* (stage "timer") over the thread of get_ai_response_async (stage "ai",
\* while generate_content runs, for any time) to display_ai_response; the
\* rule-based reply takes no time in the thread.
restVars == <<twin, loadVars, sound_index, welcomeVars, timers, rng, tick_cost, completions>>

ChatInit ==
  \E available \in BOOLEAN :
    /\ ArenaState([InitialLoadingFields(1) EXCEPT !.animation_frame = LoadingBudget],
                  <<>>, "auth", available)

OnDashboard == screen = "dashboard" /\ current_user /= None

ChatIds == {users_db[current_user].chats[i].id : i \in 1..Len(users_db[current_user].chats)}

TimerPending == \E i \in 1..Len(replies) : replies[i].stage = "timer"

\* a handler of the dashboard that changes session fields only
DashboardStep(c, op, idx) ==
  /\ SetSession(c)
  /\ ev' = Event(op, idx, FALSE, 0)
  /\ UNCHANGED <<restVars, screen, logins, replies, gemini, sent>>

\* the dashboard is reached by a login of a registered user
LoginToDashboard ==
  /\ screen = "auth"
  /\ logins < MaxLogins
  /\ ~TimerPending
  /\ \E email \in DOMAIN users_db :
     \E c \in {new_chat([login(SessionFields, email)
                           EXCEPT !.clock = @ + DashboardDelay \div 1000])} :
       SetSession(c)
  /\ screen' = "dashboard"
  /\ logins' = logins + 1
  /\ ev' = Event("show_dashboard", 0, FALSE, 0)
  /\ UNCHANGED <<restVars, replies, gemini, sent>>

\* handle_signup, lines 605-647, with valid fields for an email not yet
\* registered, up to the dashboard
SignupToDashboard ==
  /\ screen = "auth"
  /\ logins < MaxLogins
  /\ ~TimerPending
  /\ OtherUser \notin DOMAIN users_db
  /\ \E c \in {new_chat([SessionFields EXCEPT
                           !.users_db = (OtherUser :> NewUser) @@ users_db,
                           !.current_user = OtherUser,
                           !.clock = @ + DashboardDelay \div 1000])} :
       SetSession(c)
  /\ screen' = "dashboard"
  /\ logins' = logins + 1
  /\ ev' = Event("show_dashboard", 0, FALSE, 0)
  /\ UNCHANGED <<restVars, replies, gemini, sent>>

\* a second of time.time() passes
ClockSecond ==
  /\ OnDashboard
  /\ clock - (DashboardDelay \div 1000) * logins < MaxSeconds
  /\ DashboardStep([SessionFields EXCEPT !.clock = @ + 1], "second", 0)

\* the New Chat button (line 818)
NewChat ==
  /\ OnDashboard
  /\ Len(users_db[current_user].chats) < MaxChats
  /\ \E c \in {new_chat(SessionFields)} : DashboardStep(c, "new_chat", 0)

\* a chat button (line 1229)
LoadChat ==
  /\ OnDashboard
  /\ \E chat_id \in ChatIds :
     \E c \in {load_chat(SessionFields, chat_id)} : DashboardStep(c, "load_chat", chat_id)

\* the options menu of a chat offers Pin for a chat that is not pinned and
\* Unpin for one that is (lines 1259-1268)
PinChat ==
  /\ OnDashboard
  /\ \E chat_id \in ChatIds \ Range(users_db[current_user].pinned_chats) :
     \E c \in {pin_chat(SessionFields, chat_id)} : DashboardStep(c, "pin_chat", chat_id)

UnpinChat ==
  /\ OnDashboard
  /\ \E chat_id \in ChatIds \cap Range(users_db[current_user].pinned_chats) :
     \E c \in {unpin_chat(SessionFields, chat_id)} : DashboardStep(c, "unpin_chat", chat_id)

DeleteChat ==
  /\ OnDashboard
  /\ \E chat_id \in ChatIds :
     \E c \in {delete_chat(SessionFields, chat_id)} : DashboardStep(c, "delete_chat", chat_id)

ClearChatHistory ==
  /\ OnDashboard
  /\ \E c \in {clear_chat_history(SessionFields)} : DashboardStep(c, "clear_chat_history", 0)

\* save_profile_changes, lines 2010-2034, with a username: the dashboard is
\* built again (show_dashboard, which ends with new_chat)
RefreshDashboard ==
  /\ OnDashboard
  /\ Len(users_db[current_user].chats) < MaxChats
  /\ \E c \in {new_chat(SessionFields)} : SetSession(c)
  /\ ev' = Event("show_dashboard", 0, FALSE, 0)
  /\ UNCHANGED <<restVars, screen, logins, replies, gemini, sent>>

\* upload_file, lines 1679-1688, with a file chosen
UploadFile ==
  /\ OnDashboard
  /\ ~uploaded_file
  /\ DashboardStep([SessionFields EXCEPT !.uploaded_file = TRUE], "upload_file", 0)

\* save_api_key, lines 1093-1101, with a key typed in
SaveApiKey ==
  /\ OnDashboard
  /\ users_db[current_user].api_key = ""
  /\ \E c \in {configure_ai([SessionFields EXCEPT !.users_db[current_user].api_key = "key"],
                            "key")} :
       DashboardStep(c, "save_api_key", 0)

\* send_message, lines 1398-1440; text: the input holds text
SendMessage ==
  /\ OnDashboard
  /\ \E text \in BOOLEAN :
       IF ~text /\ ~uploaded_file
       THEN /\ ev' = Event("send_message", 0, FALSE, 0)
            /\ UNCHANGED <<restVars, chatVars, screen, logins>>
       ELSE /\ Len(sent) < MaxSends
            /\ \E c \in {[AppendMessage(SessionFields, [sender |-> "user", n |-> Len(sent) + 1])
                            EXCEPT !.uploaded_file = FALSE]} :
                 SetSession(c)
            /\ replies' = Append(replies, [n |-> Len(sent) + 1, stage |-> "timer",
                                            file |-> uploaded_file])
            /\ sent' = Append(sent, [user |-> current_user, chat |-> current_chat_id,
                                     calls |-> 0])
            /\ ev' = Event("send_message", Len(sent) + 1, FALSE, 0)
            /\ UNCHANGED <<restVars, screen, logins, gemini>>

\* the replies without the i-th
Drop(seq, i) == SubSeq(seq, 1, i - 1) \o SubSeq(seq, i + 1, Len(seq))

\* display_ai_response is called for replies[i]
Display(i) ==
  /\ \E c \in {display_ai_response(SessionFields, replies[i].n, screen = "dashboard")} :
       SetSession(c)
  /\ replies' = Drop(replies, i)
  /\ sent' = [sent EXCEPT ![replies[i].n].calls = @ + 1]
  /\ ev' = Event("display_ai_response", replies[i].n, screen /= "dashboard", 0)

\* the 500 ms timer of send_message (lines 1434-1437) fires, the oldest
\* first: get_ai_response_async (113-147), or get_file_analysis_response
\* (1456-1521), which calls it when the AI is on.  With the AI on the
\* thread starts generate_content; without it the rule-based reply is
\* displayed.
ResponseTimer ==
  /\ TimerPending
  /\ LET i == CHOOSE k \in 1..Len(replies) :
                /\ replies[k].stage = "timer"
                /\ \A j \in 1..(k - 1) : replies[j].stage /= "timer"
     IN IF ai_enabled
        THEN /\ replies' = [replies EXCEPT ![i].stage = "ai"]
             /\ ev' = Event("get_ai_response_async", replies[i].n, FALSE, 0)
             /\ UNCHANGED <<users_db, current_user, current_chat_id, chat_history,
                            uploaded_file, ai_enabled, lists, clock, sent>>
        ELSE Display(i)
  /\ UNCHANGED <<restVars, screen, logins, gemini>>

\* variant of ThreadDone: the thread ends without a call of display_ai_response
ThreadDoneSilent ==
  /\ \E i \in 1..Len(replies) :
       /\ replies[i].stage = "ai"
       /\ replies' = Drop(replies, i)
       /\ ev' = Event("fetch_response", replies[i].n, TRUE, 0)
  /\ UNCHANGED <<restVars, screen, logins, gemini, users_db, current_user, current_chat_id,
                 chat_history, uploaded_file, ai_enabled, lists, clock, sent>>

\* generate_content returns or raises (lines 122-146): in both cases the
\* thread has display_ai_response called once, with the text or the error
ThreadDone ==
  /\ \E i \in 1..Len(replies) :
       /\ replies[i].stage = "ai"
       /\ Display(i)
  /\ UNCHANGED <<restVars, screen, logins, gemini>>

\* one session of a registered user on the dashboard
ChatNext ==
  \/ LoginToDashboard
  \/ ClockSecond
  \/ NewChat
  \/ LoadChat
  \/ PinChat
  \/ UnpinChat
  \/ DeleteChat
  \/ ClearChatHistory
  \/ RefreshDashboard
  \/ SaveApiKey
  \/ SendMessage
  \/ ResponseTimer
  \/ ThreadDone

ChatSpec == ChatInit /\ [][ChatNext]_vars

\* messages and their replies, in sessions of the registered user
ReplyNext ==
  \/ LoginToDashboard
  \/ Logout
  \/ UploadFile
  \/ SaveApiKey
  \/ SendMessage
  \/ ResponseTimer
  \/ ThreadDone

\* the timer of send_message fires (the event loop runs), and
\* generate_content returns or raises in the end
ReplySpec == ChatInit /\ [][ReplyNext]_vars /\ WF_vars(ResponseTimer) /\ WF_vars(ThreadDone)

\* sessions of two users, one after the other
SessionNext ==
  \/ LoginToDashboard
  \/ SignupToDashboard
  \/ Logout
  \/ SaveApiKey
  \/ LoadChat
  \/ SendMessage
  \/ ResponseTimer
  \/ ThreadDone

SessionSpec == ChatInit /\ [][SessionNext]_vars

\* ================================================================ claims
\* steps of the two tick callbacks
LoadingTickStep == animation_frame' = animation_frame + 1

PendingTicks(cb) == Cardinality({i \in 1..Len(timers) : timers[i].cb = cb})

\* C1: the loading phase runs its 250 ticks, then triggers its completion
\* (the timer for show_auth_screen) exactly once: never more than once,
\* only with all 250 ticks done, eventually once; from then on no step
\* changes the ball, the particles, the trail or the frame index, and
\* animate_loading is never put on the timer list again.
LoadingCompletesOnce ==
  /\ [](completions.loading <= 1)
  /\ [](completions.loading = 1 => animation_frame = LoadingBudget)
  /\ [](animation_frame < LoadingBudget => PendingTicks("animate_loading") = 1)
  /\ <>(completions.loading = 1)
  /\ [][completions.loading = 1 =>
          /\ UNCHANGED <<animation_frame, ball_x, ball_y, ball_velocity_x,
                         ball_velocity_y, particles, trail_circles>>
          /\ PendingTicks("animate_loading")' = 0]_vars

\* witness of C1: the completion has fired and the auth screen is shown
LoadingCompletedWitness ==
  completions.loading = 1 /\ screen = "auth" /\ animation_frame = LoadingBudget

\* C2 (as claimed): show_dashboard, the completion step of a welcome phase,
\* runs at most once per phase and only with all 150 welcome ticks executed.
DashboardOnlyAtBudget ==
  /\ completions.welcome <= 1
  /\ (ev.op = "show_dashboard" => welcome_animation_frame = WelcomeBudget)

\* a tick callback is due whose canvas has been destroyed, and it runs
StaleWelcomeTick ==
  /\ Due("animate_welcome_balls")
  /\ ~CanvasAlive(Head(timers).canvas)
  /\ ev'.op = "animate_welcome_balls"

StaleLoadingTick ==
  /\ Due("animate_loading")
  /\ ~loading_canvas.alive
  /\ ev'.op = "animate_loading"

\* C3 (as claimed): a tick that fires after its phase has ended is a no-op:
\* no body is integrated, the destroyed canvas is not used (nothing raises)
\* and no further tick is scheduled.
StaleTickIsNoOp ==
  [][/\ StaleWelcomeTick =>
          /\ welcome_balls' = welcome_balls
          /\ ~ev'.raised
          /\ PendingTicks("animate_welcome_balls")' < PendingTicks("animate_welcome_balls")
     /\ StaleLoadingTick =>
          /\ UNCHANGED <<ball_x, ball_y, ball_velocity_x, ball_velocity_y>>
          /\ ~ev'.raised
          /\ PendingTicks("animate_loading")' < PendingTicks("animate_loading")]_vars

\* C4 (as claimed): at most one tick callback of each animation is pending,
\* also across logout and a second login; a tick that gets past its guard
\* uses up the frame index it saw; and while a welcome phase is shown the
\* ticks that run are the ones of its own canvas.
TickOrdering ==
  /\ PendingTicks("animate_loading") <= 1
  /\ PendingTicks("animate_welcome_balls") <= 1
  /\ (ev.op = "animate_welcome_balls" /\ screen = "welcome" => ev.canvas = welcome_canvas)

\* a welcome tick ran in this step (from its timer, or the first tick that
\* show_welcome_animation runs itself); PreBalls are the balls it started
\* from and Stepped the indices of the balls it integrated
WelcomeTickRan ==
  \/ ev'.op = "show_welcome_animation"
  \/ ev'.op = "animate_welcome_balls" /\ ev'.idx < WelcomeBudget

PreBalls == IF ev'.op = "show_welcome_animation" THEN MakeWelcomeBalls(rng) ELSE welcome_balls

Stepped == IF ev'.raised THEN {1} ELSE 1..Len(welcome_balls')

GroundContainment ==
  /\ ground_level = 650000
  /\ ball_y + ball_radius <= ground_level
  /\ \A k \in 1..Len(welcome_balls) :
       welcome_balls[k].y + welcome_balls[k].radius <= WelcomeGround

\* witness of C6: the loading ball lies on the ground and a welcome ball has
\* just been put back on the bottom of its box
GroundContainmentWitness ==
  /\ ball_y + ball_radius = ground_level
  /\ ev.op = "animate_welcome_balls"
  /\ \E k \in 1..Len(welcome_balls) :
       welcome_balls[k].y + welcome_balls[k].radius = WelcomeGround

\* C7: in a tick in which a body reaches the ground its velocity at impact
\* is >= 0 and the tick leaves velocity.y = -(impact velocity) * restitution
\* (bounce_damping for the loading ball, bounce_height for a welcome ball),
\* applied once, so the speed does not grow.
GroundBounceLaw ==
  [][/\ LoadingTickStep =>
          LET impact == ball_velocity_y + gravity IN
          ball_y + impact + ball_radius >= ground_level =>
            /\ impact >= 0
            /\ ball_velocity_y' = -FMul(impact, bounce_damping)
            /\ Abs(ball_velocity_y') <= impact
     /\ WelcomeTickRan =>
          \A k \in Stepped :
            LET b == PreBalls[k]
                impact == b.vy + WelcomeGravity
            IN b.y + impact + b.radius >= WelcomeGround =>
                 /\ impact >= 0
                 /\ welcome_balls'[k].vy = -FMul(impact, b.bounce_height)
                 /\ Abs(welcome_balls'[k].vy) <= impact]_vars

\* witness of C7: the first ground contact of the loading ball (tick 22:
\* impact velocity 18.4, velocity after the bounce -15.64)
GroundBounceWitness ==
  /\ ev.op = "animate_loading" /\ ev.idx = 22
  /\ ball_y + ball_radius = ground_level
  /\ ball_velocity_y = -15640

\* C8: wall contacts do not damp: the loading ball keeps |velocity.x| = 8
\* and every welcome ball keeps its |velocity.x|; a contact with the right
\* wall leaves velocity.x = -|velocity.x|, one with the left wall +|velocity.x|.
WallsElastic ==
  /\ [](Abs(ball_velocity_x) = 8000)
  /\ [][/\ LoadingTickStep =>
             LET x1 == ball_x + ball_velocity_x IN
             /\ x1 + ball_radius >= LoadRightWall =>
                  ball_velocity_x' = -Abs(ball_velocity_x)
             /\ x1 - ball_radius <= LoadLeftWall =>
                  ball_velocity_x' = Abs(ball_velocity_x)
        /\ WelcomeTickRan =>
             \A k \in Stepped :
               LET b == PreBalls[k]
                   x1 == b.x + b.vx
               IN /\ Abs(welcome_balls'[k].vx) = Abs(b.vx)
                  /\ x1 + b.radius >= WelcomeRightWall =>
                       welcome_balls'[k].vx = -Abs(b.vx)
                  /\ x1 + b.radius < WelcomeRightWall /\ x1 - b.radius <= WelcomeLeftWall =>
                       welcome_balls'[k].vx = Abs(b.vx)]_vars

\* witness of C8: the loading ball has just bounced off the right wall
WallsElasticWitness ==
  /\ ev.op = "animate_loading"
  /\ ball_x = LoadRightWall - ball_radius
  /\ ball_velocity_x = -8000

\* C9: a loading tick with a ground contact adds exactly 8 particles, all
\* created at (ball_x, ground_level); a tick without one adds none and does
\* not lengthen the particle list.  (A new particle has been moved once by
\* the end of its tick, so its creation point is its position minus its
\* velocity.)
ParticleBursts ==
  [][LoadingTickStep =>
       LET contact == ball_y + ball_velocity_y + gravity + ball_radius >= ground_level
           new == {i \in 1..Len(particles') : particles'[i].id \notin Ids(particles)}
       IN /\ contact =>
               /\ Cardinality(new) = 8
               /\ \A i \in new :
                    /\ particles'[i].x - particles'[i].vx = ball_x + ball_velocity_x
                    /\ particles'[i].y - particles'[i].vy = ground_level
          /\ ~contact => new = {} /\ Len(particles') <= Len(particles)]_vars

\* witness of C9: a tick has just added a burst to older particles
ParticleBurstsWitness ==
  /\ ev.op = "animate_loading"
  /\ Len(particles) > BurstSize
  /\ particles[Len(particles)].life = ParticleLife - 1
  /\ particles[1].life < ParticleLife - 1

\* C10: the trail never holds more than 15 markers after a tick, and once
\* it holds 15 it keeps holding 15.
TrailBound ==
  /\ [](Len(trail_circles) <= 15)
  /\ [][Len(trail_circles) = 15 => Len(trail_circles') = 15]_vars

\* witness of C10: the trail is full and its first markers have been evicted
TrailBoundWitness ==
  /\ screen = "loading"
  /\ Len(trail_circles) = 15
  /\ trail_circles[1].id > FirstItemId

\* C11 (as claimed): once show_auth_screen has ended the loading phase its
\* particle list and trail list are empty, and once show_dashboard has ended
\* a welcome phase its bodies are no longer held.
StateReleased ==
  /\ ~loading_canvas.alive => particles = <<>> /\ trail_circles = <<>>
  /\ welcome_frame = "destroyed" => welcome_balls = <<>>

\* a phase whose tick chain has stopped before its budget, its canvas still there
LoadingCancelled ==
  /\ loading_canvas.alive
  /\ animation_frame < LoadingBudget
  /\ PendingTicks("animate_loading") = 0

WelcomeCancelled ==
  /\ welcome_frame = "alive"
  /\ welcome_animation_frame < WelcomeBudget
  /\ PendingTicks("animate_welcome_balls") = 0

\* C12 (as claimed): a tick whose canvas call raises cancels its phase: no
\* tick runs after it and the completion step of the phase (show_auth_screen,
\* show_dashboard) does not run after it.
FaultCancelsPhase ==
  [][/\ LoadingCancelled =>
          /\ animation_frame' = animation_frame
          /\ ev'.op /= "show_auth_screen"
     /\ WelcomeCancelled =>
          /\ welcome_animation_frame' = welcome_animation_frame
          /\ ev'.op /= "show_dashboard"]_vars

\* C13: body independence in the welcome loop.  Of two runs that give ball i
\* the same initial x, y, vx, vy, radius and bounce_height and differ in the
\* other four balls, ball i has the same state after every tick.
BodyIndependence ==
  twin.i > 0 => welcome_balls[twin.i] = twin.balls[twin.i]

\* both runs have run all 150 ticks, ball i has bounced off the ground, and
\* the other balls of the two runs differ
BodyIndependenceWitness ==
  /\ twin.i > 0
  /\ welcome_animation_frame = WelcomeBudget
  /\ ev.op = "animate_welcome_balls"
  /\ welcome_balls[twin.i].y + welcome_balls[twin.i].radius = WelcomeGround
  /\ \E k \in 1..NumBalls : welcome_balls[k] /= twin.balls[k]

\* C14: integration order.  A tick adds gravity (0.8 in the loading phase,
\* 0.5 in the welcome phase) to velocity.y first and then the new velocity
\* to the position: y_new = y_old + (vy_old + gravity), x_new = x_old +
\* vx_old.  Contacts are resolved on these values: a position differs from
\* them only where they touch or pass a boundary, and is then on the boundary.
IntegrationOrder ==
  /\ [](gravity = 800)
  /\ [][/\ LoadingTickStep =>
             LET vy1 == ball_velocity_y + 800
                 y1 == ball_y + vy1
                 x1 == ball_x + ball_velocity_x
             IN /\ IF y1 + ball_radius >= ground_level
                   THEN ball_y' = ground_level - ball_radius
                   ELSE ball_y' = y1 /\ ball_velocity_y' = vy1
                /\ IF x1 + ball_radius >= LoadRightWall
                   THEN ball_x' = LoadRightWall - ball_radius
                   ELSE IF x1 - ball_radius <= LoadLeftWall
                        THEN ball_x' = LoadLeftWall + ball_radius
                        ELSE ball_x' = x1
        /\ WelcomeTickRan =>
             \A k \in Stepped :
               LET b == PreBalls[k]
                   vy1 == b.vy + 500
                   y1 == b.y + vy1
                   x1 == b.x + b.vx
                   n == welcome_balls'[k]
               IN /\ IF y1 + b.radius >= WelcomeGround
                     THEN n.y = WelcomeGround - b.radius
                     ELSE IF y1 - b.radius <= WelcomeCeiling
                          THEN n.y = WelcomeCeiling + b.radius
                          ELSE n.y = y1 /\ n.vy = vy1
                  /\ IF x1 + b.radius >= WelcomeRightWall
                     THEN n.x = WelcomeRightWall - b.radius
                     ELSE IF x1 - b.radius <= WelcomeLeftWall
                          THEN n.x = WelcomeLeftWall + b.radius
                          ELSE n.x = x1]_vars

\* witness of C14: welcome tick 10 has just run (after the 250 loading
\* ticks) and left some ball in free flight, falling
IntegrationOrderWitness ==
  /\ ev.op = "animate_welcome_balls" /\ ~ev.raised /\ ev.idx = 10
  /\ \E k \in 1..NumBalls :
       /\ welcome_balls[k].vy > 0
       /\ welcome_balls[k].y + welcome_balls[k].radius < WelcomeGround
       /\ welcome_balls[k].y - welcome_balls[k].radius > WelcomeCeiling

\* C15: a welcome ball whose integrated position has y - radius <= 100 is
\* put at y = 100 + radius and its velocity.y becomes |velocity.y|, the
\* magnitude unchanged (bounce_height is not applied).  The loading arena
\* has no ceiling: the loading ball is never moved down from its integrated
\* position, however high it is.
CeilingContact ==
  [][/\ WelcomeTickRan =>
          \A k \in Stepped :
            LET b == PreBalls[k]
                vy1 == b.vy + WelcomeGravity
                y1 == b.y + vy1
            IN y1 - b.radius <= WelcomeCeiling =>
                 /\ welcome_balls'[k].y = WelcomeCeiling + b.radius
                 /\ welcome_balls'[k].vy = Abs(vy1)
     /\ LoadingTickStep =>
          LET vy1 == ball_velocity_y + gravity
              y1 == ball_y + vy1
          IN /\ ball_y' <= y1
             /\ y1 + ball_radius < ground_level =>
                  ball_y' = y1 /\ ball_velocity_y' = vy1]_vars

\* witness of C15: a welcome tick has just put a ball back under the top of
\* the box, now moving down
CeilingContactWitness ==
  /\ ev.op = "animate_welcome_balls" /\ ~ev.raised
  /\ \E k \in 1..Len(welcome_balls) :
       /\ welcome_balls[k].y - welcome_balls[k].radius = WelcomeCeiling
       /\ welcome_balls[k].vy > 0

\* C16: the axes are resolved independently.  A body whose integrated
\* position meets a vertical contact condition (ground, or top of the
\* welcome box) and a horizontal one (a side wall) in the same tick gets
\* both resolved in that tick, in the loading and in the welcome arena.
BothAxesResolved ==
  [][/\ LoadingTickStep =>
          LET vy1 == ball_velocity_y + gravity
              y1 == ball_y + vy1
              x1 == ball_x + ball_velocity_x
              right == x1 + ball_radius >= LoadRightWall
              left == ~right /\ x1 - ball_radius <= LoadLeftWall
          IN y1 + ball_radius >= ground_level /\ (right \/ left) =>
               /\ ball_y' = ground_level - ball_radius
               /\ ball_velocity_y' = FMul(-vy1, bounce_damping)
               /\ ball_x' = IF right THEN LoadRightWall - ball_radius
                                     ELSE LoadLeftWall + ball_radius
               /\ ball_velocity_x' = IF right THEN -Abs(ball_velocity_x)
                                              ELSE Abs(ball_velocity_x)
     /\ WelcomeTickRan =>
          \A k \in Stepped :
            LET b == PreBalls[k]
                n == welcome_balls'[k]
                vy1 == b.vy + WelcomeGravity
                y1 == b.y + vy1
                x1 == b.x + b.vx
                bottom == y1 + b.radius >= WelcomeGround
                top == ~bottom /\ y1 - b.radius <= WelcomeCeiling
                right == x1 + b.radius >= WelcomeRightWall
                left == ~right /\ x1 - b.radius <= WelcomeLeftWall
            IN (bottom \/ top) /\ (right \/ left) =>
                 /\ n.y = IF bottom THEN WelcomeGround - b.radius
                                    ELSE WelcomeCeiling + b.radius
                 /\ n.vy = IF bottom THEN FMul(-Abs(vy1), b.bounce_height) ELSE Abs(vy1)
                 /\ n.x = IF right THEN WelcomeRightWall - b.radius
                                   ELSE WelcomeLeftWall + b.radius
                 /\ n.vx = IF right THEN -Abs(b.vx) ELSE Abs(b.vx)]_vars

\* witness of C16: one loading tick has put the ball on the ground, moving
\* up, and against the right wall, moving left
BothAxesResolvedWitness ==
  /\ ev.op = "animate_loading" /\ ~ev.raised
  /\ ball_y + ball_radius = ground_level /\ ball_velocity_y < 0
  /\ ball_x + ball_radius = LoadRightWall /\ ball_velocity_x < 0

\* C17: containment.  At the end of every welcome tick, whatever balls
\* show_welcome_animation drew, every ball has 100 + radius <= x <=
\* 1100 - radius and 100 + radius <= y <= 500 - radius; at the end of every
\* loading tick ball_radius <= ball_x <= 1200 - ball_radius.
BoxContainment ==
  /\ \A k \in 1..Len(welcome_balls) :
       LET b == welcome_balls[k] IN
       /\ WelcomeLeftWall + b.radius <= b.x
       /\ b.x <= WelcomeRightWall - b.radius
       /\ WelcomeCeiling + b.radius <= b.y
       /\ b.y <= WelcomeGround - b.radius
  /\ LoadLeftWall + ball_radius <= ball_x
  /\ ball_x <= LoadRightWall - ball_radius

\* witness of C17: a welcome tick has ended with a ball put back against a
\* side of the box
BoxContainmentWitness ==
  /\ ev.op = "animate_welcome_balls" /\ ~ev.raised
  /\ \E k \in 1..Len(welcome_balls) :
       \/ welcome_balls[k].x - welcome_balls[k].radius = WelcomeLeftWall
       \/ welcome_balls[k].x + welcome_balls[k].radius = WelcomeRightWall

\* C18: a particle whose life reaches 0 in a tick is removed in that tick,
\* from the list and from the canvas, and no removed particle comes back
\* (it is never moved, aged or drawn again); every other particle stays,
\* once.  At the end of every tick every particle of the list has life > 0.
ParticleRemoval ==
  /\ [](\A i \in 1..Len(particles) : particles[i].life > 0)
  /\ [][LoadingTickStep =>
          /\ \A i \in 1..Len(particles) :
               LET kept == {j \in 1..Len(particles') : particles'[j].id = particles[i].id}
               IN IF particles[i].life - 1 <= 0
                  THEN kept = {} /\ particles[i].id \notin loading_canvas'.items
                  ELSE Cardinality(kept) = 1 /\ particles[i].id \in loading_canvas'.items
          /\ \A j \in 1..Len(particles') :
               particles'[j].id \in Ids(particles) \/ particles'[j].id >= next_id]_vars

\* witness of C18: tick 41 has removed the eight particles of the first
\* bounce (tick 22), which had life 1 before it, and the list is empty
ParticleRemovalWitness ==
  /\ ev.op = "animate_loading" /\ ev.idx = 41
  /\ next_id = FirstItemId + 14 + BurstSize   \* 14 trail markers and the burst
  /\ particles = <<>>

\* the particles of the list after a tick that the tick created
NewParticles == {j \in 1..Len(particles') : particles'[j].id \notin Ids(particles)}

\* a particle that was in the list before the tick has been aged once:
\* 0.5 added to vy, the velocity added to the position, life one less
AgedOnce(p, n) ==
  /\ n.vx = p.vx
  /\ n.vy = p.vy + ParticleGravity
  /\ n.x = p.x + n.vx
  /\ n.y = p.y + n.vy
  /\ n.life = p.life - 1

\* C19 (as claimed): ageing starts the tick after the spawn.  A particle
\* created in a tick ends that tick at the bounce point with life 20; from
\* the next tick on every tick ages it once.
AgeingStartsNextTick ==
  [][LoadingTickStep =>
       \A j \in 1..Len(particles') :
         IF j \in NewParticles
         THEN /\ particles'[j].life = ParticleLife
              /\ particles'[j].x = ball_x + ball_velocity_x
              /\ particles'[j].y = ground_level
         ELSE \E i \in 1..Len(particles) :
                particles[i].id = particles'[j].id /\ AgedOnce(particles[i], particles'[j])]_vars

\* C19 (amended): ageing starts in the tick of the spawn.  A particle created
\* in a tick has been aged once by the end of that tick: it has life 19, its
\* vy is the drawn one (in [-8, -3]) plus 0.5, and it is one velocity away
\* from the bounce point; every later tick ages it once more.
AgeingStartsAtSpawn ==
  [][LoadingTickStep =>
       \A j \in 1..Len(particles') :
         IF j \in NewParticles
         THEN /\ particles'[j].life = ParticleLife - 1
              /\ particles'[j].vy - ParticleGravity \in -8000..-3000
              /\ particles'[j].vx \in -4000..4000
              /\ particles'[j].x = ball_x + ball_velocity_x + particles'[j].vx
              /\ particles'[j].y = ground_level + particles'[j].vy
         ELSE \E i \in 1..Len(particles) :
                particles[i].id = particles'[j].id /\ AgedOnce(particles[i], particles'[j])]_vars

\* witness of C19: a tick has just created a burst (life 19, one velocity
\* above the ground) while the burst before it is still in the list
AgeingStartsAtSpawnWitness ==
  /\ ev.op = "animate_loading" /\ ~ev.raised
  /\ Len(particles) = 2 * BurstSize
  /\ particles[1].life < ParticleLife - 1
  /\ particles[2 * BurstSize].life = ParticleLife - 1
  /\ particles[2 * BurstSize].y - particles[2 * BurstSize].vy = ground_level

\* the number of trail markers after n ticks: min(15, ceil(n / 3))
TrailLength(n) == IF (n + 2) \div 3 < 15 THEN (n + 2) \div 3 ELSE 15

\* C20: a trail marker is appended exactly in the ticks whose frame index is
\* a multiple of 3 (tick 0 included), at the position the ball has after
\* the contacts of that tick; after n ticks the trail holds
\* min(15, ceil(n / 3)) markers; an append to a full trail evicts the head in
\* the same tick, so the list holds the latest markers in insertion order.
TrailFifo ==
  /\ [](Len(trail_circles) = TrailLength(animation_frame))
  /\ [](\A i, j \in 1..Len(trail_circles) :
          i < j => trail_circles[i].id < trail_circles[j].id)
  /\ [][LoadingTickStep =>
          IF animation_frame % 3 = 0
          THEN /\ trail_circles' =
                    (IF Len(trail_circles) = 15 THEN Tail(trail_circles) ELSE trail_circles)
                    \o <<trail_circles'[Len(trail_circles')]>>
               /\ trail_circles'[Len(trail_circles')].x = ball_x'
               /\ trail_circles'[Len(trail_circles')].y = ball_y'
               /\ trail_circles'[Len(trail_circles')].id \notin loading_canvas.items
          ELSE trail_circles' = trail_circles]_vars

\* witness of C20: tick 249 (a multiple of 3) has appended a marker at the
\* ball, which lies on the ground, to a full trail, whose head is the marker
\* of tick 207
TrailFifoWitness ==
  /\ ev.op = "animate_loading" /\ ev.idx = 249
  /\ Len(trail_circles) = 15
  /\ trail_circles[15].x = ball_x /\ trail_circles[15].y = ball_y
  /\ ball_y + ball_radius = ground_level
  /\ trail_circles[1].id < trail_circles[15].id

\* C21: frame condition of the ticks.  No tick changes the radius or the
\* restitution of a body (ball_radius, bounce_damping; radius and
\* bounce_height of a welcome ball), gravity or ground_level (the walls and
\* the welcome box are literals of the code); in every state every body has
\* radius > 0 and restitution in (0, 1].
TickFrameCondition ==
  /\ [](/\ ball_radius > 0
        /\ bounce_damping > 0 /\ bounce_damping <= Milli
        /\ \A k \in 1..Len(welcome_balls) :
             /\ welcome_balls[k].radius > 0
             /\ welcome_balls[k].bounce_height > 0
             /\ welcome_balls[k].bounce_height <= Milli)
  /\ [][/\ ev'.op = "animate_loading" =>
             /\ ball_radius' = ball_radius
             /\ bounce_damping' = bounce_damping
             /\ gravity' = gravity
             /\ ground_level' = ground_level
        /\ WelcomeTickRan =>
             /\ Len(welcome_balls') = Len(PreBalls)
             /\ \A k \in 1..Len(PreBalls) :
                  /\ welcome_balls'[k].radius = PreBalls[k].radius
                  /\ welcome_balls'[k].bounce_height = PreBalls[k].bounce_height]_vars

\* witness of C21: the last welcome tick has run and left a ball on the
\* bottom of the box with the radius and restitution show_welcome_animation drew
TickFrameConditionWitness ==
  /\ ev.op = "animate_welcome_balls" /\ ~ev.raised /\ ev.idx = WelcomeBudget - 1
  /\ \E k \in 1..Len(welcome_balls) :
       /\ welcome_balls[k].y + welcome_balls[k].radius = WelcomeGround
       /\ welcome_balls[k].radius \in 20000..40000
       /\ welcome_balls[k].bounce_height \in 700..900

\* C22 (as claimed): update_sound_text never works on the loading canvas
\* after show_auth_screen has destroyed the loading frame, whatever the
\* order of the 600 ms, 20 ms and 500 ms timers; and a call of
\* update_sound_text made once animation_frame is 250 sets no new timer.
SoundTextSafe ==
  /\ [](~(ev.op = "update_sound_text" /\ ev.raised))
  /\ [][ev'.op = "update_sound_text" /\ animation_frame >= LoadingBudget =>
          PendingTicks("update_sound_text")' = 0]_vars

\* the particles of the list with life l
WithLife(l) == {i \in 1..Len(particles) : particles[i].life = l}

\* C23: every particle is updated exactly 20 times, in its spawn tick and
\* the 19 ticks after it, and then removed: it ends its spawn tick with
\* life 19, every later tick takes 1 off, and the tick that finds it with
\* life 1 removes it.  So at the end of a tick the list holds at most one
\* burst of 8 for each life 1..19, at most 8 * 19 = 152 particles, also
\* when the ball touches the ground in every tick.
PopulationBound ==
  /\ [](/\ Len(particles) <= 8 * 19
        /\ \A i \in 1..Len(particles) : particles[i].life \in 1..19
        /\ \A l \in 1..19 : Cardinality(WithLife(l)) \in {0, 8})
  /\ [][LoadingTickStep =>
          /\ \A i \in 1..Len(particles) :
               \/ particles[i].life = 1 /\ particles[i].id \notin Ids(particles')
               \/ /\ particles[i].life > 1
                  /\ \E j \in 1..Len(particles') :
                       /\ particles'[j].id = particles[i].id
                       /\ particles'[j].life = particles[i].life - 1
          /\ \A j \in NewParticles : particles'[j].life = 20 - 1]_vars

\* witness of C23: the ball lies on the ground, has touched it in each of
\* the last 19 ticks, and the list holds 152 particles
PopulationBoundWitness ==
  /\ ev.op = "animate_loading" /\ ~ev.raised
  /\ Len(particles) = 152
  /\ \A l \in 1..19 : Cardinality(WithLife(l)) = 8
  /\ ball_y + ball_radius = ground_level

\* the messages stored in users_db for the i-th chat of user u
Stored(u, i) == Range(lists[users_db[u].chats[i].messages])

\* no two chats of user u have the same id
DistinctIds(u) ==
  \A i, j \in 1..Len(users_db[u].chats) :
    users_db[u].chats[i].id = users_db[u].chats[j].id => i = j

\* C24: once the reply to a message has been displayed (and the sender's
\* chats have distinct ids), the chats of the sender that have the id of
\* the chat the message was sent in store the message and its reply, and the
\* sender's other chats store neither.
MessagesInOriginatingChat ==
  \A n \in 1..Len(sent) :
    sent[n].calls > 0 /\ DistinctIds(sent[n].user) =>
      \A i \in 1..Len(users_db[sent[n].user].chats) :
        IF users_db[sent[n].user].chats[i].id = sent[n].chat
        THEN {[sender |-> "user", n |-> n], [sender |-> "ai", n |-> n]}
               \subseteq Stored(sent[n].user, i)
        ELSE {[sender |-> "user", n |-> n], [sender |-> "ai", n |-> n]}
               \cap Stored(sent[n].user, i) = {}

\* C25: the reply to a message is never in a list that is the chat_history
\* of another user's session, nor in a stored chat of another user.
NoCrossUserLeak ==
  \A n \in 1..Len(sent) :
    /\ current_user \notin {None, sent[n].user}
         => [sender |-> "ai", n |-> n] \notin Range(lists[chat_history])
    /\ \A u \in DOMAIN users_db \ {sent[n].user} :
         \A i \in 1..Len(users_db[u].chats) :
           [sender |-> "ai", n |-> n] \notin Stored(u, i)

\* C26: no two chats in a user's chat list have the same id.
ChatIdsUnique == \A u \in DOMAIN users_db : DistinctIds(u)

\* C27: every id in a user's pinned_chats is the id of one of the user's
\* chats and is in pinned_chats once; on the dashboard, for every chat of
\* the list, pin_chat and unpin_chat done twice give what they give done
\* once, and leave the chats list as it is.
PinnedConsistent ==
  /\ \A u \in DOMAIN users_db :
       /\ \A k \in 1..Len(users_db[u].pinned_chats) :
            \E i \in 1..Len(users_db[u].chats) :
              users_db[u].chats[i].id = users_db[u].pinned_chats[k]
       /\ \A k, l \in 1..Len(users_db[u].pinned_chats) :
            users_db[u].pinned_chats[k] = users_db[u].pinned_chats[l] => k = l
  /\ OnDashboard =>
       \A chat_id \in ChatIds :
         /\ pin_chat(pin_chat(SessionFields, chat_id), chat_id)
              = pin_chat(SessionFields, chat_id)
         /\ unpin_chat(unpin_chat(SessionFields, chat_id), chat_id)
              = unpin_chat(SessionFields, chat_id)
         /\ pin_chat(SessionFields, chat_id).users_db[current_user].chats
              = users_db[current_user].chats
         /\ unpin_chat(SessionFields, chat_id).users_db[current_user].chats
              = users_db[current_user].chats

\* a chat has just been deleted and a chat that is pinned remains
PinnedConsistentWitness ==
  /\ OnDashboard
  /\ ev.op = "delete_chat"
  /\ users_db[current_user].pinned_chats /= <<>>

\* C28: while the dashboard is shown for a logged-in user, current_chat_id
\* is the id of a chat in that user's chats list.
CurrentChatValid ==
  OnDashboard =>
    \E i \in 1..Len(users_db[current_user].chats) :
      users_db[current_user].chats[i].id = current_chat_id

\* the chat history has just been cleared: the one chat of the list is the
\* chat the rebuilt dashboard opened
CurrentChatValidWitness ==
  /\ OnDashboard
  /\ ev.op = "clear_chat_history"
  /\ Len(users_db[current_user].chats) = 1
  /\ users_db[current_user].chats[1].id = current_chat_id

\* C29: display_ai_response is never called twice for a message; every
\* message sent leads to a state from which on it has been called once for
\* it; and a send_message without text and without a file changes nothing
\* of the session, the screen or the replies on their way.
OneReplyPerMessage ==
  /\ [](\A n \in 1..Len(sent) : sent[n].calls <= 1)
  /\ \A n \in 1..MaxSends :
       (Len(sent) >= n) ~> [](Len(sent) >= n /\ sent[n].calls = 1)
  /\ [][ev'.op = "send_message" /\ ev'.idx = 0
          => UNCHANGED <<chatVars, screen, timers>>]_vars

\* a reply that came from the thread of generate_content (the AI is on) has
\* been displayed, as the one call for its message
OneReplyPerMessageWitness ==
  /\ ev.op = "display_ai_response"
  /\ ai_enabled
  /\ sent[ev.idx].calls = 1

============================================================================
